---- MODULE Spec2Model ----
(***************************************************************************)
(* Vehicle telemetry pipeline of src/main.c: the sensor thread             *)
(* (fast_loop_thread) updates vehicle_state under state_mutex, the logic   *)
(* thread (slow_loop_thread) snapshots it, applies three trigger rules and *)
(* enqueues a CloudData record into cloud_queue, and the cloud thread      *)
(* (cloud_sender_thread) dequeues, sends and requeues on failure.          *)
(*                                                                         *)
(* Units: battery and speed are in tenths (100.0 % is 1000, 0.5 km/h is 5);*)
(* temperature is in whole degrees; time is in milliseconds;               *)
(* total_distance is in units of 0.1 km/h * time_hours, so that one update *)
(* adds sensor.speed to it (float rounding is not modelled).               *)
(***************************************************************************)
EXTENDS Integers, Sequences, FiniteSets, TLC

\* ------------------------------------------------------------- bounds
\* Capacity of the circular buffer (1000 in the source, scaled down).
QUEUE_SIZE == 2
\* Iterations of the sensor thread's loop when all three threads run.
MaxUpdates == 1
\* Iterations of the sensor thread's loop when it runs alone.
MaxSensorRuns == 3
\* Updates of the idle vehicle's battery, the seeding update included.
MaxDrainRuns == 4
\* Updates and ticks for the rules exercised on their boundary values.
MaxRuleUpdates == 2
MaxRuleTicks == 2
\* Iterations of the logic thread's loop under fair scheduling.
MaxFairTicks == 2
\* Iterations of the logic thread's loop.
MaxTicks == 3
\* Largest value the clock reaches.
MaxTime == 1000

\* ---------------------------------------------------- program constants
\* sensor.speed > 0.5
MOTION_THRESHOLD == 5
\* battery_change > 0.5
BATTERY_DELTA == 5
\* current.temp > 70.0
TEMP_CRITICAL == 70
\* cloud_data.timestamp - last_send_time >= 1000
SEND_INTERVAL == 1000
\* float last_battery_sent = 100.0
INITIAL_BATTERY_SENT == 1000

\* The battery reading 0.6 below the initial last_battery_sent: the smallest
\* drop, in units of 0.1, that exceeds the idle threshold.
IDLE_FLOOR == INITIAL_BATTERY_SENT - (BATTERY_DELTA + 1)

\* ------------------------------------------------------------ data types
\* The clock advances between two readings by one of these amounts.
ClockSteps == {0, 1000}

\* SensorData as read_sensor_data can return it (battery in 0..100, speed
\* clamped to 0..80, temp clamped to 20..75): the battery 0.6 below the
\* initial last_battery_sent, idle or moving, below or above the critical
\* temperature.
read_sensor_data ==
  {[battery |-> 994, speed |-> 0, temp |-> 25],
   [battery |-> 994, speed |-> 6, temp |-> 25],
   [battery |-> 994, speed |-> 0, temp |-> 72],
   [battery |-> 994, speed |-> 6, temp |-> 72]}

\* SensorData zero-initialised ({0}).
ZeroSensor == [battery |-> 0, speed |-> 0, temp |-> 0]

\* CloudData zero-initialised; id is a history field naming the tick that
\* built the record (0: no record).
ZeroData == [sensor |-> ZeroSensor, distance |-> 0, top_speed |-> 0,
             timestamp |-> 0, id |-> 0]

\* Values get_timestamp_ms can return when the clock last read t.
get_timestamp_ms(t) == {u \in t..MaxTime : (u - t) \in ClockSteps}

Abs(x) == IF x < 0 THEN -x ELSE x

VARIABLES
  vehicle_state,      \* VehicleState, shared
  state_mutex,        \* holder of state_mutex: "free", "fast" or "slow"
  cloud_queue,        \* CloudQueue: data, front, rear, count, mutex (holder)
  now,                \* the clock
  pc,                 \* position of each thread
  sensor,             \* fast_loop_thread: local sensor
  updates,            \* history: updates begun by fast_loop_thread
  observed,           \* history: the speeds read_sensor_data returned, in order
  ver,                \* history: the update each field of vehicle_state reflects
  last_send_time,     \* slow_loop_thread local
  last_battery_sent,  \* slow_loop_thread local
  current,            \* slow_loop_thread local
  is_moving,          \* slow_loop_thread local
  cloud_data,         \* slow_loop_thread local
  should_send,        \* slow_loop_thread local
  ticks,              \* history: iterations begun by slow_loop_thread
  snapver,            \* history: the update each value read in this tick reflects
  fired,              \* history: the rules that fired in this tick
  enq_calls,          \* history: queue_enqueue calls made in this tick
  enq_ret,            \* what the logic thread's queue_enqueue returned
  dropped,            \* history: ids of the records the logic thread's enqueue rejected
  data,               \* cloud_sender_thread local
  transport,          \* the transport in use: "random" or "fail_first"
  calls,              \* the fail_first transport's count of calls
  requeues,           \* history, fail_first runs: requeue calls made
  requeued,           \* history, fail_first runs: ids of the records a requeue stored
  delivered,          \* history, fail_first runs: ids of the records sent with SUCCESS
  pending,            \* history: ids of the records stored and not yet dequeued,
                      \*   in the order their queue_enqueue calls succeeded
  arrived             \* history: ids the logic thread stored since the last
                      \*   dequeue, while the cloud thread held a record

vars == <<vehicle_state, state_mutex, cloud_queue, now, pc, sensor, updates,
          observed,
          ver, last_send_time, last_battery_sent, current, is_moving,
          cloud_data, should_send, ticks, snapver, fired, enq_calls, enq_ret,
          dropped, data, transport, calls, requeues, requeued, delivered,
          pending, arrived>>

fastVars == <<sensor, updates, observed>>
slowVars == <<last_send_time, last_battery_sent, current, is_moving,
              cloud_data, should_send, ticks, snapver, fired, enq_calls,
              enq_ret, dropped>>
sendVars == <<data, transport, calls, requeues, requeued, delivered>>
histVars == <<pending, arrived>>

ZeroVer == [cur |-> 0, mov |-> 0, dist |-> 0, top |-> 0]

\* ----------------------------------------------------------------- mutex
\* Mutant: a lock that never blocks.
MutexFree_never_blocks(m) == TRUE

\* pthread_mutex_lock returns only when no thread holds the mutex.
MutexFree(m) == m = "free"

\* ----------------------------------------------------------------- queue
Slots == 0..(QUEUE_SIZE - 1)

\* Mutant: rear starts at 0 instead of -1.
queue_init_rear_zero ==
  [data |-> [i \in Slots |-> ZeroData], front |-> 0, rear |-> 0,
   count |-> 0, mutex |-> "free"]

\* queue_init; the array itself is zero-initialised (CloudQueue cloud_queue = {0}).
queue_init == [data |-> [i \in Slots |-> ZeroData], front |-> 0, rear |-> -1,
               count |-> 0, mutex |-> "free"]

\* Mutant: the capacity test off by one.
queue_full_off_by_one(q) == q.count > QUEUE_SIZE

\* The test that makes queue_enqueue return false.
queue_full(q) == q.count >= QUEUE_SIZE

\* Mutant: no early return on a full queue, the oldest record is overwritten.
queue_enqueue_overwrite(q, d) ==
  [q EXCEPT !.rear = (q.rear + 1) % QUEUE_SIZE,
            !.data[(q.rear + 1) % QUEUE_SIZE] = d,
            !.count = IF queue_full(q) THEN q.count ELSE q.count + 1]

\* Mutant: rear and count move but the record is not copied into the slot.
queue_enqueue_no_copy(q, d) ==
  IF queue_full(q) THEN q
  ELSE [q EXCEPT !.rear = (q.rear + 1) % QUEUE_SIZE,
                 !.count = q.count + 1]

\* queue_enqueue between lock and unlock: the queue it leaves.
queue_enqueue(q, d) ==
  IF queue_full(q) THEN q
  ELSE [q EXCEPT !.rear = (q.rear + 1) % QUEUE_SIZE,
                 !.data[(q.rear + 1) % QUEUE_SIZE] = d,
                 !.count = q.count + 1]

\* The test that makes queue_dequeue return false.
queue_empty(q) == q.count = 0

\* Mutant: the newest record is copied out instead of the oldest.
queue_front_newest(q) == q.data[q.rear]

\* The record queue_dequeue copies out.
queue_front(q) == q.data[q.front]

\* Mutant: front is not advanced.
queue_dequeue_keeps_front(q) ==
  IF queue_empty(q) THEN q
  ELSE [q EXCEPT !.count = q.count - 1]

\* Mutant: count is not decremented.
queue_dequeue_keeps_count(q) ==
  IF queue_empty(q) THEN q
  ELSE [q EXCEPT !.front = (q.front + 1) % QUEUE_SIZE]

\* queue_dequeue between lock and unlock: the queue it leaves.
queue_dequeue(q) ==
  IF queue_empty(q) THEN q
  ELSE [q EXCEPT !.front = (q.front + 1) % QUEUE_SIZE,
                 !.count = q.count - 1]

\* The live records, oldest first: count slots starting at front.
LiveSeq(q) == [i \in 1..q.count |-> q.data[(q.front + i - 1) % QUEUE_SIZE]]

\* ----------------------------------------------------------------- Init
InitWith(tr) ==
  /\ vehicle_state = [total_distance |-> 0, top_speed |-> 0, last_battery |-> 0,
                      is_moving |-> FALSE, current_sensor |-> ZeroSensor]
  /\ state_mutex = "free"
  /\ cloud_queue = queue_init
  /\ now = 0
  /\ pc = [fast |-> "f_lock", slow |-> "s_start", sender |-> "c_deq"]
  /\ sensor = ZeroSensor
  /\ updates = 0
  /\ observed = <<>>
  /\ ver = ZeroVer
  /\ last_send_time = 0
  /\ last_battery_sent = INITIAL_BATTERY_SENT
  /\ current = ZeroSensor
  /\ is_moving = FALSE
  /\ cloud_data = ZeroData
  /\ should_send = FALSE
  /\ ticks = 0
  /\ snapver = ZeroVer
  /\ fired = {}
  /\ enq_calls = 0
  /\ enq_ret = "none"
  /\ dropped = {}
  /\ data = ZeroData
  /\ transport = tr
  /\ calls = 0
  /\ requeues = 0
  /\ requeued = {}
  /\ delivered = {}
  /\ pending = <<>>
  /\ arrived = {}

\* main: queue_init, then the three threads start; send_to_cloud is the transport.
Init == InitWith("random")

\* ------------------------------------------------------ fast_loop_thread
\* read_sensor_data (thread-private) and pthread_mutex_lock(&state_mutex),
\* for the first n iterations of the loop, the reading drawn from readings.
FastLockFrom(n, readings) ==
  /\ pc.fast = "f_lock"
  /\ updates < n
  /\ MutexFree(state_mutex)
  /\ sensor' \in readings
  /\ observed' = Append(observed, sensor'.speed)
  /\ updates' = updates + 1
  /\ state_mutex' = "fast"
  /\ pc' = [pc EXCEPT !.fast = "f_current"]
  /\ UNCHANGED <<vehicle_state, cloud_queue, now, ver, slowVars, sendVars, histVars>>

FastLockUpTo(n) == FastLockFrom(n, read_sensor_data)

\* total_distance += sensor.speed * time_hours, in units of 0.1 km/h * time_hours
new_total_distance(total_distance, speed) == total_distance + speed

\* Mutant: the running maximum replaced by the latest speed.
new_top_speed_latest(top_speed, speed) == speed

\* if (sensor.speed > top_speed) top_speed = sensor.speed
new_top_speed(top_speed, speed) ==
  IF speed > top_speed THEN speed ELSE top_speed

\* vehicle_state.current_sensor = sensor
FastWriteCurrent ==
  /\ pc.fast = "f_current"
  /\ vehicle_state' = [vehicle_state EXCEPT !.current_sensor = sensor]
  /\ ver' = [ver EXCEPT !.cur = updates]
  /\ pc' = [pc EXCEPT !.fast = "f_distance"]
  /\ UNCHANGED <<state_mutex, cloud_queue, now, fastVars, slowVars, sendVars, histVars>>

\* vehicle_state.total_distance += sensor.speed * time_hours
FastWriteDistance ==
  /\ pc.fast = "f_distance"
  /\ vehicle_state' = [vehicle_state EXCEPT
                         !.total_distance =
                            new_total_distance(vehicle_state.total_distance,
                                               sensor.speed)]
  /\ ver' = [ver EXCEPT !.dist = updates]
  /\ pc' = [pc EXCEPT !.fast = "f_top"]
  /\ UNCHANGED <<state_mutex, cloud_queue, now, fastVars, slowVars, sendVars, histVars>>

\* if (sensor.speed > vehicle_state.top_speed) vehicle_state.top_speed = sensor.speed
FastWriteTop ==
  /\ pc.fast = "f_top"
  /\ vehicle_state' = [vehicle_state EXCEPT
                         !.top_speed = new_top_speed(vehicle_state.top_speed,
                                                     sensor.speed)]
  /\ ver' = [ver EXCEPT !.top = updates]
  /\ pc' = [pc EXCEPT !.fast = "f_moving"]
  /\ UNCHANGED <<state_mutex, cloud_queue, now, fastVars, slowVars, sendVars, histVars>>

\* Mutant: the flag, once set, stays set.
moving_flag_sticky(speed) == vehicle_state.is_moving \/ speed > MOTION_THRESHOLD

\* (sensor.speed > 0.5)
moving_flag(speed) == speed > MOTION_THRESHOLD

\* vehicle_state.is_moving = (sensor.speed > 0.5)
FastWriteMoving ==
  /\ pc.fast = "f_moving"
  /\ vehicle_state' = [vehicle_state EXCEPT
                         !.is_moving = moving_flag(sensor.speed)]
  /\ ver' = [ver EXCEPT !.mov = updates]
  /\ pc' = [pc EXCEPT !.fast = "f_unlock"]
  /\ UNCHANGED <<state_mutex, cloud_queue, now, fastVars, slowVars, sendVars, histVars>>

\* pthread_mutex_unlock(&state_mutex); usleep(10000); the local sensor dies
FastUnlock ==
  /\ pc.fast = "f_unlock"
  /\ state_mutex' = "free"
  /\ sensor' = ZeroSensor
  /\ pc' = [pc EXCEPT !.fast = "f_lock"]
  /\ UNCHANGED <<vehicle_state, cloud_queue, now, ver, updates, observed, slowVars,
                 sendVars, histVars>>

FastLock == FastLockUpTo(MaxUpdates)

FastLockAlone == FastLockUpTo(MaxSensorRuns)

Fast == FastLock \/ FastWriteCurrent \/ FastWriteDistance \/ FastWriteTop
          \/ FastWriteMoving \/ FastUnlock

\* ------------------------------------------------------ slow_loop_thread
\* Mutant: the idle threshold is inclusive.
Rule1_inclusive(moving, battery, last_sent) ==
  ~moving /\ Abs(battery - last_sent) >= BATTERY_DELTA

\* Rule 1: battery change when idle.
Rule1(moving, battery, last_sent) ==
  ~moving /\ Abs(battery - last_sent) > BATTERY_DELTA

\* Mutant: the send interval is exclusive.
Rule2_exclusive(moving, timestamp, last_time) ==
  moving /\ (timestamp - last_time > SEND_INTERVAL)

\* Rule 2: send every second when moving.
Rule2(moving, timestamp, last_time) ==
  moving /\ (timestamp - last_time >= SEND_INTERVAL)

\* Mutant: the comparison of rule 3 reversed.
Rule3_reversed(temp) == temp < TEMP_CRITICAL

\* Rule 3: critical temperature.
Rule3(temp) == temp > TEMP_CRITICAL

\* long last_send_time = get_timestamp_ms(); float last_battery_sent = 100.0
\* (this first reading of the clock is the origin the later ones are counted from)
SlowStart ==
  /\ pc.slow = "s_start"
  /\ now' = now
  /\ last_send_time' = now
  /\ last_battery_sent' = INITIAL_BATTERY_SENT
  /\ pc' = [pc EXCEPT !.slow = "s_lock"]
  /\ UNCHANGED <<vehicle_state, state_mutex, cloud_queue, ver, fastVars,
                 current, is_moving, cloud_data, should_send, ticks, snapver,
                 fired, enq_calls, enq_ret, dropped, sendVars, histVars>>

\* pthread_mutex_lock(&state_mutex)
SlowLockUpTo(n) ==
  /\ pc.slow = "s_lock"
  /\ ticks < n
  /\ MutexFree(state_mutex)
  /\ state_mutex' = "slow"
  /\ ticks' = ticks + 1
  /\ pc' = [pc EXCEPT !.slow = "s_current"]
  /\ UNCHANGED <<vehicle_state, cloud_queue, now, ver, fastVars,
                 last_send_time, last_battery_sent, current, is_moving,
                 cloud_data, should_send, snapver, fired, enq_calls, enq_ret,
                 dropped, sendVars, histVars>>

SlowLock == SlowLockUpTo(MaxTicks)

\* SensorData current = vehicle_state.current_sensor
SlowReadCurrent ==
  /\ pc.slow = "s_current"
  /\ current' = vehicle_state.current_sensor
  /\ snapver' = [snapver EXCEPT !.cur = ver.cur]
  /\ pc' = [pc EXCEPT !.slow = "s_moving"]
  /\ UNCHANGED <<vehicle_state, state_mutex, cloud_queue, now, ver, fastVars,
                 last_send_time, last_battery_sent, is_moving, cloud_data,
                 should_send, ticks, fired, enq_calls, enq_ret, dropped,
                 sendVars, histVars>>

\* bool is_moving = vehicle_state.is_moving
SlowReadMoving ==
  /\ pc.slow = "s_moving"
  /\ is_moving' = vehicle_state.is_moving
  /\ snapver' = [snapver EXCEPT !.mov = ver.mov]
  /\ pc' = [pc EXCEPT !.slow = "s_distance"]
  /\ UNCHANGED <<vehicle_state, state_mutex, cloud_queue, now, ver, fastVars,
                 last_send_time, last_battery_sent, current, cloud_data,
                 should_send, ticks, fired, enq_calls, enq_ret, dropped,
                 sendVars, histVars>>

\* cloud_data.sensor = current; cloud_data.distance = vehicle_state.total_distance
SlowReadDistance ==
  /\ pc.slow = "s_distance"
  /\ cloud_data' = [cloud_data EXCEPT !.sensor = current,
                                      !.distance = vehicle_state.total_distance,
                                      !.id = ticks]
  /\ snapver' = [snapver EXCEPT !.dist = ver.dist]
  /\ pc' = [pc EXCEPT !.slow = "s_top"]
  /\ UNCHANGED <<vehicle_state, state_mutex, cloud_queue, now, ver, fastVars,
                 last_send_time, last_battery_sent, current, is_moving,
                 should_send, ticks, fired, enq_calls, enq_ret, dropped,
                 sendVars, histVars>>

\* cloud_data.top_speed = vehicle_state.top_speed
SlowReadTop ==
  /\ pc.slow = "s_top"
  /\ cloud_data' = [cloud_data EXCEPT !.top_speed = vehicle_state.top_speed]
  /\ snapver' = [snapver EXCEPT !.top = ver.top]
  /\ pc' = [pc EXCEPT !.slow = "s_rules"]
  /\ UNCHANGED <<vehicle_state, state_mutex, cloud_queue, now, ver, fastVars,
                 last_send_time, last_battery_sent, current, is_moving,
                 should_send, ticks, fired, enq_calls, enq_ret, dropped,
                 sendVars, histVars>>

\* The rules that fire on a snapshot at timestamp t.
FiredRules(t) ==
  {r \in {1, 2, 3} :
     \/ r = 1 /\ Rule1(is_moving, current.battery, last_battery_sent)
     \/ r = 2 /\ Rule2(is_moving, t, last_send_time)
     \/ r = 3 /\ Rule3(current.temp)}

\* Mutant: each rule assigns should_send, so that only rule 3 decides.
should_send_last_rule(f) == 3 \in f

\* should_send = false, set to true by each rule that fires
should_send_after(f) == f # {}

\* Mutant: rule 1 does not record the battery value it sent.
new_last_battery_sent_stale(f, battery, last_sent) == last_sent

\* Rule 1's body: last_battery_sent = current.battery
new_last_battery_sent(f, battery, last_sent) ==
  IF 1 \in f THEN battery ELSE last_sent

\* Mutant: every rule that fires records the send time.
new_last_send_time_any_rule(f, timestamp, last_time) ==
  IF f # {} THEN timestamp ELSE last_time

\* Rule 2's body: last_send_time = cloud_data.timestamp
new_last_send_time(f, timestamp, last_time) ==
  IF 2 \in f THEN timestamp ELSE last_time

\* cloud_data.timestamp = get_timestamp_ms(); should_send = false; rules 1 to 3;
\* clock is the set of values get_timestamp_ms can return.
SlowRulesAt(clock) ==
  /\ pc.slow = "s_rules"
  /\ \E t \in clock :
       /\ now' = t
       /\ cloud_data' = [cloud_data EXCEPT !.timestamp = t]
       /\ fired' = FiredRules(t)
       /\ should_send' = should_send_after(FiredRules(t))
       /\ last_battery_sent' =
            new_last_battery_sent(FiredRules(t), current.battery, last_battery_sent)
       /\ last_send_time' = new_last_send_time(FiredRules(t), t, last_send_time)
  /\ pc' = [pc EXCEPT !.slow = "s_unlock"]
  /\ UNCHANGED <<vehicle_state, state_mutex, cloud_queue, ver, fastVars,
                 current, is_moving, ticks, snapver, enq_calls, enq_ret,
                 dropped, sendVars, histVars>>

SlowRules == SlowRulesAt(get_timestamp_ms(now))

\* Mutant: state_mutex is still held when the record is handed to the queue.
SlowUnlock_keeps_state_mutex ==
  /\ pc.slow = "s_unlock"
  /\ pc' = [pc EXCEPT !.slow = "s_send"]
  /\ UNCHANGED <<vehicle_state, state_mutex, cloud_queue, now, ver, fastVars,
                 slowVars, sendVars, histVars>>

\* pthread_mutex_unlock(&state_mutex)
SlowUnlock ==
  /\ pc.slow = "s_unlock"
  /\ state_mutex' = "free"
  /\ pc' = [pc EXCEPT !.slow = "s_send"]
  /\ UNCHANGED <<vehicle_state, cloud_queue, now, ver, fastVars, slowVars,
                 sendVars, histVars>>

\* if (should_send) queue_enqueue(...): pthread_mutex_lock(&q->mutex)
SlowSend ==
  /\ pc.slow = "s_send"
  /\ IF should_send
     THEN /\ MutexFree(cloud_queue.mutex)
          /\ cloud_queue' = [cloud_queue EXCEPT !.mutex = "slow"]
          /\ enq_calls' = enq_calls + 1
          /\ pc' = [pc EXCEPT !.slow = "s_enqueue"]
     ELSE /\ pc' = [pc EXCEPT !.slow = "s_sleep"]
          /\ UNCHANGED <<cloud_queue, enq_calls>>
  /\ UNCHANGED <<vehicle_state, state_mutex, now, ver, fastVars,
                 last_send_time, last_battery_sent, current, is_moving,
                 cloud_data, should_send, ticks, snapver, fired, enq_ret,
                 dropped, sendVars, histVars>>

\* Mutant: a rejected record is kept and the call repeated until it is stored.
SlowEnqueue_retries ==
  /\ pc.slow = "s_enqueue"
  /\ cloud_queue' = [queue_enqueue(cloud_queue, cloud_data) EXCEPT !.mutex = "free"]
  /\ enq_ret' = IF queue_full(cloud_queue) THEN "false" ELSE "true"
  /\ pending' = IF queue_full(cloud_queue) THEN pending
                ELSE Append(pending, cloud_data.id)
  /\ arrived' = IF queue_full(cloud_queue) \/ data.id = 0 THEN arrived
                ELSE arrived \cup {cloud_data.id}
  /\ pc' = [pc EXCEPT !.slow = IF queue_full(cloud_queue) THEN "s_send"
                               ELSE "s_sleep"]
  /\ UNCHANGED <<vehicle_state, state_mutex, now, ver, fastVars,
                 last_send_time, last_battery_sent, current, is_moving,
                 cloud_data, should_send, ticks, snapver, fired, enq_calls,
                 dropped, sendVars>>

\* queue_enqueue(&cloud_queue, &cloud_data) from the full-queue test to the return
SlowEnqueue ==
  /\ pc.slow = "s_enqueue"
  /\ cloud_queue' = [queue_enqueue(cloud_queue, cloud_data) EXCEPT !.mutex = "free"]
  /\ enq_ret' = IF queue_full(cloud_queue) THEN "false" ELSE "true"
  /\ dropped' = IF queue_full(cloud_queue) THEN dropped \cup {cloud_data.id}
                ELSE dropped
  /\ pending' = IF queue_full(cloud_queue) THEN pending
                ELSE Append(pending, cloud_data.id)
  /\ arrived' = IF queue_full(cloud_queue) \/ data.id = 0 THEN arrived
                ELSE arrived \cup {cloud_data.id}
  /\ pc' = [pc EXCEPT !.slow = "s_sleep"]
  /\ UNCHANGED <<vehicle_state, state_mutex, now, ver, fastVars,
                 last_send_time, last_battery_sent, current, is_moving,
                 cloud_data, should_send, ticks, snapver, fired, enq_calls,
                 sendVars>>

\* usleep(100000) and the end of the loop body: its locals die
SlowSleep ==
  /\ pc.slow = "s_sleep"
  /\ current' = ZeroSensor
  /\ is_moving' = FALSE
  /\ cloud_data' = ZeroData
  /\ should_send' = FALSE
  /\ snapver' = ZeroVer
  /\ fired' = {}
  /\ enq_calls' = 0
  /\ enq_ret' = "none"
  /\ pc' = [pc EXCEPT !.slow = "s_lock"]
  /\ UNCHANGED <<vehicle_state, state_mutex, cloud_queue, now, ver, fastVars,
                 last_send_time, last_battery_sent, ticks, dropped, sendVars, histVars>>

Slow == SlowStart \/ SlowLock \/ SlowReadCurrent \/ SlowReadMoving
          \/ SlowReadDistance \/ SlowReadTop \/ SlowRules \/ SlowUnlock
          \/ SlowSend \/ SlowEnqueue \/ SlowSleep

\* --------------------------------------------------- cloud_sender_thread
\* What send_to_cloud can return: SUCCESS or FAILURE, by rand().
send_to_cloud == {"SUCCESS", "FAILURE"}

\* The test transport: fails on its first call and succeeds afterwards.
fail_first_transport(n) == IF n = 0 THEN {"FAILURE"} ELSE {"SUCCESS"}

\* The sequence s without the entries equal to x.
Without(s, x) == SelectSeq(s, LAMBDA y : y # x)

\* queue_dequeue(&cloud_queue, &data): pthread_mutex_lock(&q->mutex)
SenderLock ==
  /\ pc.sender = "c_deq"
  /\ MutexFree(cloud_queue.mutex)
  /\ cloud_queue' = [cloud_queue EXCEPT !.mutex = "sender"]
  /\ pc' = [pc EXCEPT !.sender = "c_dequeue"]
  /\ UNCHANGED <<vehicle_state, state_mutex, now, ver, fastVars, slowVars,
                 sendVars, histVars>>

\* queue_dequeue from the empty-queue test to the return; usleep(100000) on false
SenderDequeue ==
  /\ pc.sender = "c_dequeue"
  /\ cloud_queue' = [queue_dequeue(cloud_queue) EXCEPT !.mutex = "free"]
  /\ data' = IF queue_empty(cloud_queue) THEN data ELSE queue_front(cloud_queue)
  /\ pending' = IF queue_empty(cloud_queue) THEN pending
                ELSE Without(pending, queue_front(cloud_queue).id)
  /\ arrived' = IF queue_empty(cloud_queue) THEN arrived ELSE {}
  /\ pc' = [pc EXCEPT !.sender = IF queue_empty(cloud_queue) THEN "c_deq"
                                 ELSE "c_send"]
  /\ UNCHANGED <<vehicle_state, state_mutex, now, ver, fastVars, slowVars,
                 transport, calls, requeues, requeued, delivered>>

\* Mutant: a failed send is not followed by a requeue.
after_send_no_retry(status) == "c_deq"

\* if (status == FAILURE) queue_enqueue(...), else the next iteration
after_send(status) == IF status = "FAILURE" THEN "c_req" ELSE "c_deq"

\* CloudStatus status = send_to_cloud(&data); on SUCCESS the record is done with
SenderSend ==
  /\ pc.sender = "c_send"
  /\ \E status \in (IF transport = "fail_first" THEN fail_first_transport(calls)
                    ELSE send_to_cloud) :
       /\ pc' = [pc EXCEPT !.sender = after_send(status)]
       /\ data' = IF after_send(status) = "c_req" THEN data ELSE ZeroData
       /\ delivered' = IF transport = "fail_first" /\ status = "SUCCESS"
                       THEN delivered \cup {data.id} ELSE delivered
  /\ calls' = IF transport = "fail_first" THEN calls + 1 ELSE calls
  /\ UNCHANGED <<vehicle_state, state_mutex, cloud_queue, now, ver, fastVars,
                 slowVars, transport, requeues, requeued, histVars>>

\* queue_enqueue(&cloud_queue, &data): pthread_mutex_lock(&q->mutex)
SenderRequeueLock ==
  /\ pc.sender = "c_req"
  /\ MutexFree(cloud_queue.mutex)
  /\ cloud_queue' = [cloud_queue EXCEPT !.mutex = "sender"]
  /\ requeues' = IF transport = "fail_first" THEN requeues + 1 ELSE requeues
  /\ pc' = [pc EXCEPT !.sender = "c_requeue"]
  /\ UNCHANGED <<vehicle_state, state_mutex, now, ver, fastVars, slowVars,
                 data, transport, calls, requeued, delivered, histVars>>

\* Mutant: the cloud thread keeps the record and calls queue_enqueue again
\* until the record is stored.
SenderRequeue_until_stored ==
  /\ pc.sender = "c_requeue"
  /\ cloud_queue' = [queue_enqueue(cloud_queue, data) EXCEPT !.mutex = "free"]
  /\ pending' = IF queue_full(cloud_queue) THEN pending
                ELSE Append(pending, data.id)
  /\ requeued' = IF transport = "fail_first" /\ ~queue_full(cloud_queue)
                 THEN requeued \cup {data.id} ELSE requeued
  /\ data' = IF queue_full(cloud_queue) THEN data ELSE ZeroData
  /\ pc' = [pc EXCEPT !.sender = IF queue_full(cloud_queue) THEN "c_req"
                                 ELSE "c_deq"]
  /\ UNCHANGED <<vehicle_state, state_mutex, now, ver, fastVars, slowVars,
                 transport, calls, requeues, delivered, arrived>>

\* queue_enqueue from the full-queue test to the return (the result is
\* ignored); the iteration ends and the local data dies
SenderRequeue ==
  /\ pc.sender = "c_requeue"
  /\ cloud_queue' = [queue_enqueue(cloud_queue, data) EXCEPT !.mutex = "free"]
  /\ pending' = IF queue_full(cloud_queue) THEN pending
                ELSE Append(pending, data.id)
  /\ requeued' = IF transport = "fail_first" /\ ~queue_full(cloud_queue)
                 THEN requeued \cup {data.id} ELSE requeued
  /\ data' = ZeroData
  /\ pc' = [pc EXCEPT !.sender = "c_deq"]
  /\ UNCHANGED <<vehicle_state, state_mutex, now, ver, fastVars, slowVars,
                 transport, calls, requeues, delivered, arrived>>

Sender == SenderLock \/ SenderDequeue \/ SenderSend \/ SenderRequeueLock
            \/ SenderRequeue

\* ------------------------------------------------------------------ Spec
Next == Fast \/ Slow \/ Sender

Spec == Init /\ [][Next]_vars

\* The sensor thread running alone.
NextSensor == FastLockAlone \/ FastWriteCurrent \/ FastWriteDistance
                \/ FastWriteTop \/ FastWriteMoving \/ FastUnlock

SpecSensor == Init /\ [][NextSensor]_vars

\* The readings of a moving vehicle above the critical temperature.
critical_readings ==
  {r \in read_sensor_data : Rule3(r.temp) /\ r.speed > MOTION_THRESHOLD}

\* The three threads with every reading critical, so that the logic thread
\* hands a record to the queue on every tick that follows an update, and
\* with the clock standing still.
FastLockCritical == FastLockFrom(MaxUpdates, critical_readings)

SlowLockFair == SlowLockUpTo(MaxFairTicks)

FastCritical == FastLockCritical \/ FastWriteCurrent \/ FastWriteDistance
                  \/ FastWriteTop \/ FastWriteMoving \/ FastUnlock

SlowRulesNow == SlowRulesAt({now})

SlowNow == SlowStart \/ SlowLockFair \/ SlowReadCurrent \/ SlowReadMoving
             \/ SlowReadDistance \/ SlowReadTop \/ SlowRulesNow \/ SlowUnlock
             \/ SlowSend \/ SlowEnqueue \/ SlowSleep

NextFair == FastCritical \/ SlowNow \/ Sender

\* Fair scheduling: a thread that can take a step takes one, and a thread
\* blocked in pthread_mutex_lock is not passed over for ever when the mutex
\* is released again and again (every holder sleeps in usleep or in
\* send_to_cloud after it unlocks).
SpecFair == Init /\ [][NextFair]_vars
              /\ WF_vars(FastCritical) /\ WF_vars(SlowNow) /\ WF_vars(Sender)
              /\ SF_vars(FastLockCritical) /\ SF_vars(SlowLockFair)
              /\ SF_vars(SlowSend) /\ SF_vars(SenderLock)
              /\ SF_vars(SenderRequeueLock)

\* The idle vehicle whose battery drains: speed 0, temperature 25, and a
\* battery that falls from the last reading towards IDLE_FLOOR.
idle_drain(last) ==
  {[battery |-> b, speed |-> 0, temp |-> 25] : b \in IDLE_FLOOR..last.battery}

\* vehicle_state after one update with battery 100.0, speed 0 and temp 25.
InitIdle ==
  /\ vehicle_state = [total_distance |-> 0, top_speed |-> 0, last_battery |-> 0,
                      is_moving |-> FALSE,
                      current_sensor |-> [battery |-> INITIAL_BATTERY_SENT,
                                          speed |-> 0, temp |-> 25]]
  /\ state_mutex = "free"
  /\ cloud_queue = queue_init
  /\ now = 0
  /\ pc = [fast |-> "f_lock", slow |-> "s_start", sender |-> "c_deq"]
  /\ sensor = ZeroSensor
  /\ updates = 1
  /\ observed = <<0>>
  /\ ver = [cur |-> 1, mov |-> 1, dist |-> 1, top |-> 1]
  /\ last_send_time = 0
  /\ last_battery_sent = INITIAL_BATTERY_SENT
  /\ current = ZeroSensor
  /\ is_moving = FALSE
  /\ cloud_data = ZeroData
  /\ should_send = FALSE
  /\ ticks = 0
  /\ snapver = ZeroVer
  /\ fired = {}
  /\ enq_calls = 0
  /\ enq_ret = "none"
  /\ dropped = {}
  /\ data = ZeroData
  /\ transport = "random"
  /\ calls = 0
  /\ requeues = 0
  /\ requeued = {}
  /\ delivered = {}
  /\ pending = <<>>
  /\ arrived = {}

FastLockIdle ==
  FastLockFrom(MaxDrainRuns, idle_drain(vehicle_state.current_sensor))

\* The sensor thread of the idle vehicle and the logic thread; the cloud
\* thread is not scheduled, so that every stored record stays in the queue.
NextIdle == FastLockIdle \/ FastWriteCurrent \/ FastWriteDistance
              \/ FastWriteTop \/ FastWriteMoving \/ FastUnlock \/ Slow

SpecIdle == InitIdle /\ [][NextIdle]_vars

\* Readings whose speed is zero, at the motion threshold or above it.
speed_readings ==
  {[battery |-> b, speed |-> s, temp |-> 25] :
     b \in {IDLE_FLOOR}, s \in {0, MOTION_THRESHOLD, MOTION_THRESHOLD + 1}}

FastLockSpeeds == FastLockFrom(MaxSensorRuns, speed_readings)

\* The sensor thread running alone on these readings.
NextMotion == FastLockSpeeds \/ FastWriteCurrent \/ FastWriteDistance
                \/ FastWriteTop \/ FastWriteMoving \/ FastUnlock

SpecMotion == Init /\ [][NextMotion]_vars

\* Readings on both sides of each rule's test: the battery unchanged, 0.5
\* and 0.6 below the initial last_battery_sent; idle or moving; below or
\* above the critical temperature.
rule_readings ==
  {[battery |-> b, speed |-> s, temp |-> t] :
     b \in {INITIAL_BATTERY_SENT, INITIAL_BATTERY_SENT - BATTERY_DELTA, IDLE_FLOOR},
     s \in {0, MOTION_THRESHOLD + 1},
     t \in {25, TEMP_CRITICAL + 2}}

\* Clock values up to two send intervals, advancing by nothing, by one
\* millisecond less than the send interval, or by the send interval.
rule_clock(t) ==
  {u \in t..(2 * SEND_INTERVAL) : (u - t) \in {0, SEND_INTERVAL - 1, SEND_INTERVAL}}

FastLockRules == FastLockFrom(MaxRuleUpdates, rule_readings)

SlowLockRules == SlowLockUpTo(MaxRuleTicks)

SlowRulesWide == SlowRulesAt(rule_clock(now))

\* The sensor thread and the logic thread on these readings and this clock;
\* the cloud thread is not scheduled.
NextRules == FastLockRules \/ FastWriteCurrent \/ FastWriteDistance
               \/ FastWriteTop \/ FastWriteMoving \/ FastUnlock
               \/ SlowStart \/ SlowLockRules \/ SlowReadCurrent
               \/ SlowReadMoving \/ SlowReadDistance \/ SlowReadTop
               \/ SlowRulesWide \/ SlowUnlock \/ SlowSend \/ SlowEnqueue
               \/ SlowSleep

SpecRules == Init /\ [][NextRules]_vars

\* The three threads against the test transport, each thread scheduled fairly.
InitRetry == InitWith("fail_first")

SpecRetry == InitRetry /\ [][Next]_vars
               /\ WF_vars(Fast) /\ WF_vars(Slow) /\ WF_vars(Sender)

\* ================================================================ claims
\* A step in which the logic thread's queue_enqueue runs from its test to its return.
SlowEnqueueStep == pc.slow = "s_enqueue" /\ pc'.slow # "s_enqueue"

\* A step in which the cloud thread's requeue runs from its test to its return.
SenderRequeueStep == pc.sender = "c_requeue" /\ pc'.sender # "c_requeue"

\* A step in which queue_dequeue runs from its test to its return.
SenderDequeueStep == pc.sender = "c_dequeue" /\ pc'.sender # "c_dequeue"

\* The queue without its mutex.
Contents(q) == [data |-> q.data, front |-> q.front, rear |-> q.rear,
                count |-> q.count]

\* C1: in every reachable state, whatever the interleaving of the logic
\* thread's enqueues, the cloud thread's requeues and its dequeues, the
\* queue's count is within 0..QUEUE_SIZE.
C1_QueueBound == cloud_queue.count \in 0..QUEUE_SIZE

\* The queue is full and the cloud thread is about to requeue into it.
C1_Witness ==
  /\ cloud_queue.count = QUEUE_SIZE
  /\ pc.sender = "c_requeue"

\* What queue_enqueue of record d must do in a step, returning ret ("" when
\* the caller ignores the result).
EnqueueContract(d, ret) ==
  IF cloud_queue.count = QUEUE_SIZE
  THEN /\ Contents(cloud_queue') = Contents(cloud_queue)
       /\ ret \in {"", "false"}
  ELSE /\ cloud_queue'.count = cloud_queue.count + 1
       /\ LiveSeq(cloud_queue') = Append(LiveSeq(cloud_queue), d)
       /\ cloud_queue'.front = cloud_queue.front
       /\ ret \in {"", "true"}

\* C2: queue_enqueue on a full queue returns false and leaves front, rear,
\* count and every slot as they were; on a queue that is not full it returns
\* true, adds one to count and puts the record at the back; in both cases
\* the call returns in that step (the caller moves on and the mutex is free).
C2_EnqueueContract ==
  [][/\ SlowEnqueueStep =>
          /\ EnqueueContract(cloud_data, enq_ret')
          /\ pc'.slow = "s_sleep"
          /\ cloud_queue'.mutex = "free"
     /\ SenderRequeueStep =>
          /\ EnqueueContract(data, "")
          /\ pc'.sender = "c_deq"
          /\ cloud_queue'.mutex = "free"]_vars

\* The logic thread's enqueue was rejected by a full queue and it has moved on.
C2_Witness ==
  /\ pc.slow = "s_sleep"
  /\ enq_ret = "false"
  /\ cloud_queue.count = QUEUE_SIZE

\* The logic thread has read all four values of this tick.
SnapshotTaken == pc.slow \in {"s_rules", "s_unlock", "s_send", "s_enqueue", "s_sleep"}

\* C3: the four values the logic thread reads in one tick (current_sensor,
\* is_moving, total_distance, top_speed) reflect the same update of the
\* sensor thread (update 0 is the initial state), the record is built from
\* them, and while the logic thread still holds state_mutex they are the
\* values vehicle_state holds.
C3_SnapshotConsistency ==
  /\ SnapshotTaken =>
       /\ snapver.cur = snapver.mov
       /\ snapver.mov = snapver.dist
       /\ snapver.dist = snapver.top
       /\ cloud_data.sensor = current
  /\ pc.slow \in {"s_rules", "s_unlock"} =>
       /\ current = vehicle_state.current_sensor
       /\ is_moving = vehicle_state.is_moving
       /\ cloud_data.distance = vehicle_state.total_distance
       /\ cloud_data.top_speed = vehicle_state.top_speed
       /\ ver = snapver

\* The logic thread holds a snapshot of the first update while the record
\* of an earlier tick, a snapshot of the initial state, is in the queue.
C3_Witness ==
  /\ pc.slow = "s_unlock"
  /\ snapver = [cur |-> 1, mov |-> 1, dist |-> 1, top |-> 1]
  /\ current.speed > 0
  /\ cloud_queue.count > 0

RECURSIVE SumOf(_)
SumOf(s) == IF s = <<>> THEN 0 ELSE Head(s) + SumOf(Tail(s))

RECURSIVE MaxOf(_)
MaxOf(s) == IF s = <<>> THEN 0
            ELSE IF Head(s) > MaxOf(Tail(s)) THEN Head(s) ELSE MaxOf(Tail(s))

\* C4: total_distance and top_speed never decrease in a step, and after each
\* update (the sensor thread outside its critical section) top_speed is the
\* largest speed read so far and total_distance is the sum over the updates
\* of speed times the tick fraction.
C4_Monotonic ==
  /\ [][/\ vehicle_state'.total_distance >= vehicle_state.total_distance
        /\ vehicle_state'.top_speed >= vehicle_state.top_speed]_vars
  /\ [](pc.fast = "f_lock" =>
          /\ vehicle_state.top_speed = MaxOf(observed)
          /\ vehicle_state.total_distance = SumOf(observed))

\* Three updates are done, the speed rose and then fell.
C4_Witness ==
  /\ pc.fast = "f_lock"
  /\ Len(observed) = 3
  /\ observed[2] > observed[1]
  /\ observed[3] < observed[2]

\* The ids of a sequence of records.
Ids(recs) == [i \in 1..Len(recs) |-> recs[i].id]

\* C5: every successful queue_dequeue returns the record whose queue_enqueue
\* succeeded earliest among the records not yet dequeued (a requeue is an
\* enqueue of its own), so between two requeues records come out in the
\* order their enqueues succeeded; the live slots hold exactly those records
\* in that order, also when front + count passes QUEUE_SIZE.
C5_Fifo ==
  /\ [][(SenderDequeueStep /\ cloud_queue.count > 0) =>
          /\ data' = LiveSeq(cloud_queue)[1]
          /\ data'.id = Head(pending)
          /\ pending' = Tail(pending)]_vars
  /\ [](cloud_queue.mutex = "free" => Ids(LiveSeq(cloud_queue)) = pending)

\* The second record was dequeued from the last slot while the third, stored
\* in slot 0 after the indices wrapped, waits behind it.
C5_Witness ==
  /\ pc.sender = "c_send"
  /\ data.id = 2
  /\ pending = <<3>>
  /\ cloud_queue.front = 0
  /\ cloud_queue.rear = 0
  /\ cloud_queue.data[QUEUE_SIZE - 1].id = 2

\* C6: a requeue that succeeds places the failed record at the back, behind
\* every record then in the queue, the ones the logic thread stored during
\* the transport call included; every dequeue takes the front record and
\* keeps the order of the others, so the failed record is dequeued again
\* only after all of them.
C6_RequeueAtBack ==
  [][/\ (SenderRequeueStep /\ cloud_queue.count < QUEUE_SIZE) =>
          /\ pending' = Append(pending, data.id)
          /\ LiveSeq(cloud_queue') = Append(LiveSeq(cloud_queue), data)
          /\ \A i \in arrived : \E k \in 1..Len(pending) : pending[k] = i
     /\ (SenderDequeueStep /\ cloud_queue.count > 0) =>
          /\ LiveSeq(cloud_queue') = Tail(LiveSeq(cloud_queue))
          /\ \A k \in 1..Len(pending') : pending'[k] # data'.id]_vars

\* Record 1 failed and was requeued behind record 2, which the logic thread
\* stored while the cloud thread held record 1.
C6_Witness ==
  /\ pc.sender = "c_deq"
  /\ pending = <<2, 1>>
  /\ arrived = {2}

RecordIds == 1..MaxTicks

\* A step in which send_to_cloud is called and returns.
SenderSendStep == pc.sender = "c_send" /\ pc'.sender # "c_send"

\* C7: against a transport that fails on its first call and succeeds
\* afterwards, the cloud thread makes exactly one requeue call, right after
\* the first failure; a record whose requeue was stored is eventually sent
\* with SUCCESS; and a record sent with SUCCESS is from then on neither in
\* the queue nor held by the cloud thread, and is never passed to the
\* transport again.
C7_RetryOnce ==
  /\ [](requeues <= 1)
  /\ [](calls = 0 => requeues = 0)
  /\ []((calls >= 1 /\ pc.sender # "c_req") => requeues = 1)
  /\ [][SenderSendStep =>
          /\ calls = 0 => (pc'.sender = "c_req" /\ data' = data)
          /\ data.id \notin delivered]_vars
  /\ (requeued # {}) ~> (requeued # {} /\ requeued \subseteq delivered)
  /\ [](\A i \in delivered :
          /\ data.id # i
          /\ \A k \in 1..cloud_queue.count : LiveSeq(cloud_queue)[k].id # i)

\* A single record went through the pipeline: its first send failed, it was
\* requeued into the empty queue, and the second call delivered it.
C7_Witness ==
  /\ calls = 2
  /\ requeues = 1
  /\ \E i \in RecordIds : requeued = {i} /\ delivered = {i}
  /\ cloud_queue.count = 0
  /\ pc.sender = "c_deq"

\* The number of entries of s equal to x.
Count(s, x) == Cardinality({k \in 1..Len(s) : s[k] = x})

\* C8: a tick makes at most one queue_enqueue call; at the end of a tick
\* the logic thread has made exactly one call if one or more rules fired and
\* none if no rule fired, and a stored record of the tick is stored once.
C8_OneRecordPerTick ==
  /\ enq_calls <= 1
  /\ Count(pending, cloud_data.id) <= 1
  /\ pc.slow = "s_sleep" =>
       /\ enq_calls = IF fired # {} THEN 1 ELSE 0
       /\ enq_ret = "true" => (cloud_data.id \notin dropped /\ cloud_data.id \in RecordIds)
       /\ enq_ret = "none" <=> fired = {}

\* A tick in which two rules fired ended with one record stored.
C8_Witness ==
  /\ pc.slow = "s_sleep"
  /\ Cardinality(fired) = 2
  /\ enq_calls = 1
  /\ Count(pending, cloud_data.id) = 1

\* C9 as stated: at the end of every tick whose snapshot is above the
\* critical temperature, the tick's record has been stored in the queue.
C9_StoredEveryTick ==
  (pc.slow = "s_sleep" /\ current.temp > TEMP_CRITICAL) => enq_ret = "true"

\* C9 amended: in every tick whose snapshot is above the critical
\* temperature, whatever the other rules do, rule 3 fires and one
\* queue_enqueue call is made with a record built from the tick's snapshot;
\* the record is stored at the back if and only if the queue is not full at
\* that call.
C9_CriticalTemperature ==
  /\ []((pc.slow = "s_sleep" /\ current.temp > TEMP_CRITICAL) =>
          /\ 3 \in fired
          /\ enq_calls = 1
          /\ cloud_data.sensor = current
          /\ cloud_data.id = ticks
          /\ enq_ret \in {"true", "false"})
  /\ [][(SlowEnqueueStep /\ current.temp > TEMP_CRITICAL) =>
          IF cloud_queue.count < QUEUE_SIZE
          THEN /\ enq_ret' = "true"
               /\ LiveSeq(cloud_queue') = Append(LiveSeq(cloud_queue), cloud_data)
          ELSE /\ enq_ret' = "false"
               /\ LiveSeq(cloud_queue') = LiveSeq(cloud_queue)]_vars

\* Two consecutive ticks above the critical temperature each stored their
\* record, the second with no other rule firing.
C9_Witness ==
  /\ pc.slow = "s_sleep"
  /\ current.temp > TEMP_CRITICAL
  /\ fired = {3}
  /\ enq_ret = "true"
  /\ cloud_queue.count = 2
  /\ LiveSeq(cloud_queue)[1].id = cloud_data.id - 1
  /\ LiveSeq(cloud_queue)[1].sensor.temp > TEMP_CRITICAL
  /\ LiveSeq(cloud_queue)[2] = cloud_data

\* C10: a queue_enqueue of the logic thread that the full queue rejects
\* leaves the queue and the bookkeeping as they were and takes the thread to
\* the end of its tick; at the end of every tick, rejected or not,
\* last_battery_sent is the record's battery if rule 1 fired and
\* last_send_time the record's timestamp if rule 2 fired; the loop goes on;
\* and a rejected record is never in the queue, never held by the cloud
\* thread and never offered to the queue again.
C10_DropOnFull ==
  /\ [][(SlowEnqueueStep /\ cloud_queue.count = QUEUE_SIZE) =>
          /\ pc'.slow = "s_sleep"
          /\ enq_ret' = "false"
          /\ Contents(cloud_queue') = Contents(cloud_queue)
          /\ last_battery_sent' = last_battery_sent
          /\ last_send_time' = last_send_time
          /\ cloud_data.id \in dropped']_vars
  /\ [](pc.slow = "s_sleep" =>
          /\ 1 \in fired => last_battery_sent = cloud_data.sensor.battery
          /\ 2 \in fired => last_send_time = cloud_data.timestamp
          /\ ENABLED SlowSleep)
  /\ [](\A i \in dropped :
          /\ data.id # i
          /\ Count(pending, i) = 0
          /\ \A k \in 1..cloud_queue.count : LiveSeq(cloud_queue)[k].id # i
          /\ cloud_data.id = i => pc.slow = "s_sleep")

\* The tick of a rejected record, in which rule 2 fired, is over and the
\* loop is back at its top with last_send_time set by that tick.
C10_Witness ==
  /\ pc.slow = "s_lock"
  /\ dropped # {}
  /\ last_send_time = SEND_INTERVAL
  /\ last_battery_sent # INITIAL_BATTERY_SENT
  /\ cloud_queue.count = QUEUE_SIZE

\* ------------------------------------------------------------------ C11
\* What the logic thread has handed to queue_enqueue so far (the cloud thread
\* not running): the records stored and the records rejected.
Handed == Len(pending) + Cardinality(dropped)

\* C11: the idle vehicle seeded with battery 100.0, speed 0, temp 25 and
\* last_battery_sent 100.0, its battery falling by 0.6 in all: a tick fires
\* rule 1 exactly when it is the first to see a drop above 0.5, no tick fires
\* another rule, and so at most one record is handed to the queue, exactly one
\* once a tick has seen the whole drop.
C11_IdleDrainOnce ==
  /\ Handed <= 1
  /\ dropped = {}
  /\ pc.slow = "s_sleep" =>
       /\ fired \subseteq {1}
       /\ IF INITIAL_BATTERY_SENT - current.battery > BATTERY_DELTA
          THEN /\ Len(pending) = 1
               /\ cloud_queue.count = 1
               /\ (1 \in fired) = (pending = <<ticks>>)
               /\ queue_front(cloud_queue).sensor.battery = current.battery
          ELSE pending = <<>> /\ fired = {}

\* A tick after the one that fired sees the same drop and fires nothing.
C11_Witness ==
  /\ pc.slow = "s_sleep"
  /\ current.battery = IDLE_FLOOR
  /\ fired = {}
  /\ Len(pending) = 1
  /\ pending[1] < ticks
  /\ cloud_queue.count = 1

\* ------------------------------------------------------------------ C12
Threads == {"fast", "slow", "sender"}

\* The mutexes thread t holds.
Held(t) == {x \in {"state_mutex", "queue_mutex"} :
              \/ x = "state_mutex" /\ state_mutex = t
              \/ x = "queue_mutex" /\ cloud_queue.mutex = t}

\* Thread t is blocked in, or about to call, pthread_mutex_lock on mutex x.
Requests(t, x) ==
  \/ t = "fast" /\ x = "state_mutex" /\ pc.fast = "f_lock" /\ updates < MaxUpdates
  \/ t = "slow" /\ x = "state_mutex" /\ pc.slow = "s_lock" /\ ticks < MaxFairTicks
  \/ t = "slow" /\ x = "queue_mutex" /\ pc.slow = "s_send" /\ should_send
  \/ t = "sender" /\ x = "queue_mutex" /\ pc.sender \in {"c_deq", "c_req"}

\* C12: no thread holds both mutexes, a thread that requests one holds none
\* (the logic thread has released state_mutex before queue_enqueue, the cloud
\* thread holds nothing during send_to_cloud), and under fair scheduling
\* every thread that requests a mutex obtains it.
C12_DeadlockFree ==
  /\ [](\A t \in Threads :
         /\ Cardinality(Held(t)) <= 1
         /\ (\E x \in {"state_mutex", "queue_mutex"} : Requests(t, x))
              => Held(t) = {})
  /\ [](pc.sender = "c_send" => Held("sender") = {})
  /\ Requests("fast", "state_mutex") ~> ("state_mutex" \in Held("fast"))
  /\ Requests("slow", "state_mutex") ~> ("state_mutex" \in Held("slow"))
  /\ Requests("slow", "queue_mutex") ~> ("queue_mutex" \in Held("slow"))
  /\ Requests("sender", "queue_mutex") ~> ("queue_mutex" \in Held("sender"))

\* The logic thread waits for the queue mutex, which the cloud thread holds,
\* while the sensor thread holds state_mutex.
C12_Witness ==
  /\ Requests("slow", "queue_mutex")
  /\ Held("sender") = {"queue_mutex"}
  /\ Held("fast") = {"state_mutex"}

\* ------------------------------------------------------------------ C13
\* C13: whenever the sensor thread is outside its critical section (the
\* initial state included), vehicle_state.is_moving equals
\* (vehicle_state.current_sensor.speed > 0.5), and that speed is the latest
\* one read.
C13_MovingFlag ==
  state_mutex # "fast" =>
    /\ vehicle_state.is_moving =
         (vehicle_state.current_sensor.speed > MOTION_THRESHOLD)
    /\ vehicle_state.current_sensor.speed =
         (IF observed = <<>> THEN 0 ELSE observed[Len(observed)])

\* The vehicle moved, then was read at exactly the threshold: not moving.
C13_Witness ==
  /\ state_mutex = "free"
  /\ observed = <<MOTION_THRESHOLD + 1, MOTION_THRESHOLD>>
  /\ ~vehicle_state.is_moving
  /\ vehicle_state.top_speed > MOTION_THRESHOLD

\* ------------------------------------------------------------------ C14
\* The ids of the live records.
LiveIds(q) == {LiveSeq(q)[k].id : k \in 1..q.count}

\* Record i was built and is no longer anywhere: not in a live slot, not in
\* the cloud thread's hands, not in the hands of the tick that built it.
Gone(i) ==
  /\ i <= ticks
  /\ i \notin LiveIds(cloud_queue)
  /\ data.id # i
  /\ ~(ticks = i /\ pc.slow \notin {"s_sleep", "s_lock"})

\* C14: against the transport that fails once, the cloud thread calls
\* queue_enqueue once for the failed record; when the queue is full at that
\* call the queue is left as it was, the record is nowhere afterwards, the
\* cloud thread is back at its dequeue with the mutex released, and a record
\* that is gone undelivered stays gone and undelivered.
C14_RequeueOnFull ==
  /\ [](requeues = IF calls = 0 \/ (calls = 1 /\ pc.sender = "c_req")
                   THEN 0 ELSE 1)
  /\ [][SenderRequeueStep /\ queue_full(cloud_queue) =>
          /\ Contents(cloud_queue') = Contents(cloud_queue)
          /\ cloud_queue'.mutex = "free"
          /\ pc'.sender = "c_deq"
          /\ data' = ZeroData
          /\ \A i \in RecordIds :
                data.id = i => Gone(i)' /\ i \notin delivered']_vars
  /\ [][\A i \in RecordIds :
          Gone(i) /\ i \notin delivered => Gone(i)' /\ i \notin delivered']_vars

\* The failed record met a full queue: it is gone, neither requeued nor
\* delivered, and the cloud thread is at its dequeue.
C14_Witness ==
  /\ requeues = 1
  /\ requeued = {}
  /\ pc.sender = "c_deq"
  /\ data = ZeroData
  /\ queue_full(cloud_queue)
  /\ Gone(1)
  /\ 1 \notin delivered
  /\ 1 \notin dropped

\* ------------------------------------------------------------------ C15
\* Record i is stored and not yet dequeued.
InQueue(i) == \E k \in 1..Len(pending) : pending[k] = i

\* The cloud thread has dequeued record i and is calling send_to_cloud on it.
AtTransport(i) == pc.sender = "c_send" /\ data.id = i

\* C15: under fair scheduling, with a transport that returns either status,
\* every record that a queue_enqueue stored (the logic thread's, or a requeue)
\* is later dequeued and handed to send_to_cloud.
C15_DeliveryAttempt ==
  \A i \in 1..MaxFairTicks : InQueue(i) ~> AtTransport(i)

\* Record 2 is handed to the transport while record 1, which failed and was
\* requeued behind it, waits in the queue.
C15_Witness ==
  /\ AtTransport(2)
  /\ LiveIds(cloud_queue) = {1}
  /\ ticks = 2

\* ------------------------------------------------------------------ C16
\* The places that own record i: the live slots that hold it, and the cloud
\* thread when it holds it.
Owners(i) ==
  Count(Ids(LiveSeq(cloud_queue)), i) + (IF data.id = i THEN 1 ELSE 0)

\* C16: every record is in at most one place, one live slot or the cloud
\* thread's hands (otherwise it is gone), and the cloud thread holds a record
\* only between its dequeue and the end of its transport or requeue step.
C16_SingleOwner ==
  /\ \A i \in RecordIds : Owners(i) <= 1
  /\ data.id # 0 => pc.sender \in {"c_send", "c_req", "c_requeue"}
  /\ \A k \in 1..cloud_queue.count : LiveSeq(cloud_queue)[k].id \in RecordIds

\* The cloud thread holds record 1 for its requeue; the slot record 1 was
\* dequeued from still has its bytes but is not live, record 2 is live.
C16_Witness ==
  /\ pc.sender = "c_requeue"
  /\ data.id = 1
  /\ cloud_queue.data[0].id = 1
  /\ LiveIds(cloud_queue) = {2}

\* ------------------------------------------------------------------ C17
\* The step of a tick that reads the clock and evaluates the three rules.
SlowRulesStep == pc.slow = "s_rules" /\ pc'.slow = "s_unlock"

\* Rule 1's condition on the snapshot of the current tick.
IdleBatteryDue ==
  ~is_moving /\ Abs(current.battery - last_battery_sent) > BATTERY_DELTA

\* C17: a tick fires rule 1 iff its snapshot is not moving and the battery
\* differs from last_battery_sent by more than 0.5; when it fires,
\* last_battery_sent becomes the battery of the record built in that tick and
\* the record is to be sent; otherwise last_battery_sent is unchanged.
C17_IdleBatteryRule ==
  [][SlowRulesStep =>
       /\ (1 \in fired') = IdleBatteryDue
       /\ IdleBatteryDue =>
            /\ last_battery_sent' = cloud_data'.sensor.battery
            /\ cloud_data'.sensor.battery = current.battery
            /\ should_send'
       /\ ~IdleBatteryDue => last_battery_sent' = last_battery_sent]_vars

\* A tick that saw the idle vehicle 0.5 below the last sent value fired
\* nothing; the next one, 0.6 below, fires rule 1.
C17_Witness ==
  /\ pc.slow = "s_unlock"
  /\ ticks = 2
  /\ fired = {1}
  /\ ~is_moving
  /\ cloud_data.sensor.battery = IDLE_FLOOR
  /\ last_battery_sent = IDLE_FLOOR
  /\ cloud_queue.count = 0
  /\ dropped = {}
  /\ observed = <<0, 0>>

\* ------------------------------------------------------------------ C18
\* Rule 2's condition on the snapshot and the timestamp t of the current tick.
PeriodicDue(t) == is_moving /\ (t - last_send_time) >= SEND_INTERVAL

\* A record only rule 2 can have sent: moving (rule 1 needs an idle
\* snapshot) and not above the critical temperature.
PeriodicRecord(d) ==
  d.sensor.speed > MOTION_THRESHOLD /\ ~(d.sensor.temp > TEMP_CRITICAL)

\* C18: a tick fires rule 2 iff its snapshot is moving and its timestamp
\* is at least 1000 ms after last_send_time; when it fires, last_send_time
\* becomes that timestamp and the record is to be sent, otherwise it is
\* unchanged; and any two records that rule 2 sent carry timestamps at least
\* 1000 ms apart.
C18_PeriodicRule ==
  /\ [][SlowRulesStep =>
          /\ (2 \in fired') = PeriodicDue(cloud_data'.timestamp)
          /\ PeriodicDue(cloud_data'.timestamp) =>
               /\ last_send_time' = cloud_data'.timestamp
               /\ should_send'
          /\ ~PeriodicDue(cloud_data'.timestamp) =>
               last_send_time' = last_send_time]_vars
  /\ [](\A j, k \in 1..cloud_queue.count :
          /\ j < k
          /\ PeriodicRecord(LiveSeq(cloud_queue)[j])
          /\ PeriodicRecord(LiveSeq(cloud_queue)[k])
          => LiveSeq(cloud_queue)[k].timestamp - LiveSeq(cloud_queue)[j].timestamp
               >= SEND_INTERVAL)

\* Two ticks fired rule 2, one send interval after the start and one send
\* interval after that; both records are stored.
C18_Witness ==
  /\ pc.slow = "s_sleep"
  /\ fired = {2}
  /\ cloud_queue.count = 2
  /\ PeriodicRecord(LiveSeq(cloud_queue)[1])
  /\ PeriodicRecord(LiveSeq(cloud_queue)[2])
  /\ LiveSeq(cloud_queue)[1].timestamp = SEND_INTERVAL
  /\ LiveSeq(cloud_queue)[2].timestamp = 2 * SEND_INTERVAL
  /\ last_send_time = 2 * SEND_INTERVAL

\* ------------------------------------------------------------------ C19
\* C19: last_battery_sent changes only in the rule evaluation of a tick whose
\* rule 1 condition holds, last_send_time only in one whose rule 2 condition
\* holds; a tick where neither holds leaves both unchanged, and sends a
\* record exactly when the temperature is critical.
C19_BookkeepingFrame ==
  [][/\ last_battery_sent' # last_battery_sent =>
          SlowRulesStep /\ IdleBatteryDue
     /\ last_send_time' # last_send_time =>
          SlowRulesStep /\ PeriodicDue(cloud_data'.timestamp)
     /\ (/\ SlowRulesStep
         /\ ~IdleBatteryDue
         /\ ~PeriodicDue(cloud_data'.timestamp)) =>
          /\ last_battery_sent' = last_battery_sent
          /\ last_send_time' = last_send_time
          /\ fired' \subseteq {3}
          /\ should_send' = (current.temp > TEMP_CRITICAL)]_vars

\* Only rule 3 fired, for a moving vehicle 999 ms after the start: the record
\* is stored and the bookkeeping is as it was initialised.
C19_Witness ==
  /\ pc.slow = "s_sleep"
  /\ fired = {3}
  /\ enq_ret = "true"
  /\ is_moving
  /\ cloud_data.timestamp = SEND_INTERVAL - 1
  /\ last_send_time = 0
  /\ last_battery_sent = INITIAL_BATTERY_SENT

\* ------------------------------------------------------------------ C20
\* The slots that hold the live records: count slots starting at front.
LiveSlots(q) == {(q.front + j) % QUEUE_SIZE : j \in 0..(q.count - 1)}

\* C20: front is in 0..QUEUE_SIZE-1, rear in -1..QUEUE_SIZE-1 and -1 exactly
\* while no queue_enqueue has stored anything, count in 0..QUEUE_SIZE, and
\* (rear + 1) mod QUEUE_SIZE = (front + count) mod QUEUE_SIZE; no step
\* changes the record in a live slot, so queue_enqueue writes only slots
\* whose record has been dequeued or that were never used.
C20_IndexInvariant ==
  /\ [](/\ cloud_queue.front \in 0..(QUEUE_SIZE - 1)
        /\ cloud_queue.rear \in -1..(QUEUE_SIZE - 1)
        /\ cloud_queue.count \in 0..QUEUE_SIZE
        /\ (cloud_queue.rear = -1) =
             (\A k \in Slots : cloud_queue.data[k] = ZeroData)
        /\ (cloud_queue.rear + 1) % QUEUE_SIZE
             = (cloud_queue.front + cloud_queue.count) % QUEUE_SIZE)
  /\ [][\A k \in Slots :
          cloud_queue'.data[k] # cloud_queue.data[k] =>
            /\ k \notin LiveSlots(cloud_queue)
            /\ k = cloud_queue'.rear
            /\ LiveSlots(cloud_queue') = LiveSlots(cloud_queue) \cup {k}]_vars

\* The queue is full and wrapped: the newest record sits in slot 0, which
\* an earlier dequeue freed, the oldest in the last slot.
C20_Witness ==
  /\ cloud_queue.count = QUEUE_SIZE
  /\ cloud_queue.front = QUEUE_SIZE - 1
  /\ cloud_queue.rear = QUEUE_SIZE - 2
  /\ cloud_queue.data[cloud_queue.rear].id > cloud_queue.data[cloud_queue.front].id
  /\ cloud_queue.mutex = "free"

====
